---- MODULE Spec2Model ----
(***************************************************************************)
(* Model of src/bot.py: the per-user session dictionary users_state, the   *)
(* three message handlers cmd_pw, handle_document and handle_text, and the *)
(* download / upload / cleanup tail of handle_text.                        *)
(*                                                                         *)
(* Text is modelled as a sequence of one-character strings, so that        *)
(* str.strip, str.replace, slicing, int() and str.lower are computed and   *)
(* not assumed.  A session is a Python dict object: it lives in `heap`     *)
(* under an object id, and users_state maps a user id to such an id, so    *)
(* that a handler that still holds a reference to a dict that /pw has      *)
(* replaced is distinguishable from one that holds the stored dict.        *)
(*                                                                         *)
(* bot = telebot.TeleBot(BOT_TOKEN, parse_mode=None) (src/bot.py:24) keeps *)
(* the library defaults threaded=True, num_threads=2: every handler call   *)
(* is queued to a pool of two worker threads, and bot.py takes no lock.    *)
(* Handlers are therefore split at the points where they read or write the *)
(* shared dictionaries, and the steps of two workers interleave.           *)
(*                                                                         *)
(* Three specifications: Spec (one user sends events, all documents and    *)
(* texts), SpecMulti (two users send events, the documents and texts of    *)
(* one complete session) and SpecBatch (the ask_batch branch of            *)
(* handle_text over a set of label texts on both sides of the cut length). *)
(***************************************************************************)
EXTENDS Integers, Sequences, FiniteSets, TLC

(* ------------------------------------------------------------------ *)
(* Bounds of the model                                                 *)
(* ------------------------------------------------------------------ *)
\* number of session dicts cmd_pw may allocate in one run
MaxSessions == 2
\* number of inbound events (commands, documents, texts) dispatched in one run
MaxEvents == 7

(* ------------------------------------------------------------------ *)
(* Program constants                                                   *)
(* ------------------------------------------------------------------ *)
\* worker threads of the TeleBot created with default arguments
NumThreads == 2
\* batch = text.replace('/', '_')[:64]
MaxBatchLen == 64

\* user ids (message.from_user.id)
Users == {1, 2}
\* the users whose events Spec dispatches
Senders == {1}
Threads == 1..NumThreads
Sids == 1..MaxSessions

(* ------------------------------------------------------------------ *)
(* Python string primitives over sequences of characters               *)
(* ------------------------------------------------------------------ *)
Whitespace == {" ", "\n", "\r", "\t"}
Digits == <<"0", "1", "2", "3", "4", "5", "6", "7", "8", "9">>
UpperCase == <<"A", "B", "C", "D", "E", "F", "G", "H", "I", "J", "K", "L", "M",
               "N", "O", "P", "Q", "R", "S", "T", "U", "V", "W", "X", "Y", "Z">>
LowerCase == <<"a", "b", "c", "d", "e", "f", "g", "h", "i", "j", "k", "l", "m",
               "n", "o", "p", "q", "r", "s", "t", "u", "v", "w", "x", "y", "z">>

RECURSIVE LStrip(_)
LStrip(s) ==
    IF s # <<>> /\ Head(s) \in Whitespace THEN LStrip(Tail(s)) ELSE s

RECURSIVE RStrip(_)
RStrip(s) ==
    IF s # <<>> /\ s[Len(s)] \in Whitespace
    THEN RStrip(SubSeq(s, 1, Len(s) - 1))
    ELSE s

\* str.strip()
Strip(s) == RStrip(LStrip(s))

\* str.startswith(p)
StartsWith(s, p) == Len(s) >= Len(p) /\ SubSeq(s, 1, Len(p)) = p

\* str.endswith(p)
EndsWith(s, p) == Len(s) >= Len(p) /\ SubSeq(s, Len(s) - Len(p) + 1, Len(s)) = p

\* p in s
Contains(s, p) ==
    \E i \in 1..(Len(s) - Len(p) + 1) : SubSeq(s, i, i + Len(p) - 1) = p

LowerChar(c) ==
    IF \E i \in 1..26 : UpperCase[i] = c
    THEN LowerCase[CHOOSE i \in 1..26 : UpperCase[i] = c]
    ELSE c

\* str.lower()
Lower(s) == [i \in 1..Len(s) |-> LowerChar(s[i])]

\* str.replace(a, b) for single characters a, b
Replace(s, a, b) == [i \in 1..Len(s) |-> IF s[i] = a THEN b ELSE s[i]]

\* s[:n]
Prefix(s, n) == SubSeq(s, 1, IF Len(s) < n THEN Len(s) ELSE n)

IsDigit(c) == \E i \in 1..10 : Digits[i] = c
DigitVal(c) == (CHOOSE i \in 1..10 : Digits[i] = c) - 1

RECURSIVE DigitsVal(_, _)
DigitsVal(s, acc) ==
    IF s = <<>> THEN acc
    ELSE IF Head(s) = "_" THEN DigitsVal(Tail(s), acc)
    ELSE DigitsVal(Tail(s), 10 * acc + DigitVal(Head(s)))

\* the digit part int() accepts: digits, single underscores between digits
DigitString(s) ==
    /\ s # <<>>
    /\ IsDigit(s[1])
    /\ IsDigit(s[Len(s)])
    /\ \A i \in 1..Len(s) : IsDigit(s[i]) \/ s[i] = "_"
    /\ \A i \in 1..(Len(s) - 1) : ~(s[i] = "_" /\ s[i + 1] = "_")

\* int(text): [ok |-> FALSE] stands for ValueError
PyInt(text) ==
    LET s == Strip(text)
        signed == s # <<>> /\ s[1] \in {"+", "-"}
        body == IF signed THEN Tail(s) ELSE s
    IN  IF DigitString(body)
        THEN [ok |-> TRUE,
              val |-> IF signed /\ s[1] = "-"
                      THEN 0 - DigitsVal(body, 0) ELSE DigitsVal(body, 0)]
        ELSE [ok |-> FALSE, val |-> 0]

RECURSIVE NatToStr(_)
NatToStr(n) ==
    IF n < 10 THEN <<Digits[n + 1]>>
    ELSE NatToStr(n \div 10) \o <<Digits[(n % 10) + 1]>>

\* str(n), as the f-strings format an int
IntToStr(n) == IF n < 0 THEN <<"-">> \o NatToStr(0 - n) ELSE NatToStr(n)

\* str.splitlines() for the line ends \n, \r and \r\n
RECURSIVE SplitFrom(_, _, _)
SplitFrom(s, cur, acc) ==
    IF s = <<>> THEN (IF cur = <<>> THEN acc ELSE Append(acc, cur))
    ELSE IF Head(s) = "\r" /\ Len(s) >= 2 /\ s[2] = "\n"
         THEN SplitFrom(Tail(Tail(s)), <<>>, Append(acc, cur))
    ELSE IF Head(s) \in {"\n", "\r"}
         THEN SplitFrom(Tail(s), <<>>, Append(acc, cur))
    ELSE SplitFrom(Tail(s), Append(cur, Head(s)), acc)

SplitLines(s) == SplitFrom(s, <<>>, <<>>)

(* ------------------------------------------------------------------ *)
(* Inputs: message texts and uploaded documents                        *)
(* ------------------------------------------------------------------ *)
\* An uploaded file: https://x.com/a.pdf and https://y.com/v.mp4, one per line
DocA ==
    <<"h", "t", "t", "p", "s", ":", "/", "/", "x", ".", "c", "o", "m",
      "/", "a", ".", "p", "d", "f", "\n", "h", "t", "t", "p", "s",
      ":", "/", "/", "y", ".", "c", "o", "m", "/", "v", ".", "m",
      "p", "4", "\n">>
\* An uploaded file with no line that starts with http:// or https://
DocB ==
    <<"h", "e", "l", "l", "o", "\n", " ", "f", "t", "p", ":", "/", "/",
      "z", ".", "o", "r", "g", "/", "f", "\n", "\n">>
\* An uploaded file with one padded URL in upper case, a \r\n line end and
\* a byte that is not valid UTF-8 (written "\\xff")
DocC ==
    <<" ", " ", "h", "t", "t", "p", ":", "/", "/", "q", ".", "i", "o",
      "/", "V", ".", "P", "D", "F", " ", "\r", "\n", "n", "o", "t",
      "e", "s", "\\xff", "\n">>
Docs == {DocA, DocB, DocC}

\* Texts of inbound text messages (message.text or ""): two indexes, an
\* index below the range, a text with a path separator, the two quality
\* literals (one of them padded with whitespace) and the empty text
MsgTexts ==
    { <<"1">>, <<"2">>, <<"0">>, <<"x", "/", "y">>, <<"4", "8", "0">>,
      <<" ", "7", "2", "0", "\n">>, <<>> }

(* ------------------------------------------------------------------ *)
(* Pure functions of bot.py                                            *)
(* ------------------------------------------------------------------ *)
DotPdf == <<".", "p", "d", "f">>
AppPdf ==
    <<"a", "p", "p", "l", "i", "c", "a", "t", "i", "o", "n", "/", "p",
      "d", "f">>
HttpPrefix == <<"h", "t", "t", "p", ":", "/", "/">>
HttpsPrefix == <<"h", "t", "t", "p", "s", ":", "/", "/">>

is_pdf_url(url) ==
    LET lower == Lower(url)
    IN  EndsWith(lower, DotPdf) \/ Contains(lower, AppPdf)

\* a parser that tests the lines without stripping them
parse_urls_from_text_Unstripped(text) ==
    LET lines == SplitLines(text)
        IsUrl(l) == l # <<>> /\ (StartsWith(l, HttpPrefix) \/ StartsWith(l, HttpsPrefix))
    IN  SelectSeq(lines, IsUrl)

\* lines 47-50
parse_urls_from_text(text) ==
    LET raw == SplitLines(text)
        lines == [i \in 1..Len(raw) |-> Strip(raw[i])]
        IsUrl(l) == l # <<>> /\ (StartsWith(l, HttpPrefix) \/ StartsWith(l, HttpsPrefix))
    IN  SelectSeq(lines, IsUrl)

\* downloaded.decode('utf-8', errors='ignore'): undecodable bytes are dropped
DecodeIgnore(bytes) ==
    LET Valid(b) == b # "\\xff"
    IN  SelectSeq(bytes, Valid)

\* urls[i] of a Python list: a negative index counts from the end;
\* [ok |-> FALSE] stands for IndexError
PyIndex(list, i) ==
    LET j == IF i < 0 THEN i + Len(list) ELSE i
    IN  IF j >= 0 /\ j < Len(list)
        THEN [ok |-> TRUE, val |-> list[j + 1]]
        ELSE [ok |-> FALSE, val |-> <<>>]

\* a range check that lets index 0 through
IndexOutOfRange_ZeroBased(idx, urls) == idx < 0 \/ idx > Len(urls)

\* if idx < 1 or idx > len(urls): rejected
IndexOutOfRange(idx, urls) == idx < 1 \/ idx > Len(urls)

Q480 == <<"4", "8", "0">>
Q720 == <<"7", "2", "0">>

\* a quality check that accepts every text of three characters
QualityRejected_ByLength(text) == Len(text) # 3

\* if text not in ('480','720'): rejected
QualityRejected(text) == text \notin {Q480, Q720}

\* batch = text.replace('/', '_')[:64]
\* a label with the separators replaced and no cut: text.replace('/', '_')
SanitizeBatch_Uncut(text) == Replace(text, "/", "_")

\* batch = text.replace('/', '_')[:64]
SanitizeBatch(text) == Prefix(Replace(text, "/", "_"), MaxBatchLen)

api_base ==
    <<"h", "t", "t", "p", "s", ":", "/", "/", "a", "n", "o", "n", "y",
      "m", "o", "u", "s", "p", "w", "p", "l", "a", "y", "e", "r",
      "-", "2", "5", "2", "6", "1", "a", "c", "d", "1", "5", "2",
      "1", ".", "h", "e", "r", "o", "k", "u", "a", "p", "p", ".",
      "c", "o", "m", "/", "p", "w">>

\* final_url = f"{api_base}?url={chosen_url}&token={token}"
FinalUrl(chosen_url, token) ==
    api_base \o <<"?", "u", "r", "l", "=">> \o chosen_url
             \o <<"&", "t", "o", "k", "e", "n", "=">> \o token

\* the record logging.info("Final URL: %s", final_url) writes
FinalUrlLogRecord(final_url) ==
    <<"F", "i", "n", "a", "l", " ", "U", "R", "L", ":", " ">> \o final_url

\* local_name = f"{batch}_{state['chosen_index']}.pdf"
PdfLocalName(batch, chosen_index) ==
    batch \o <<"_">> \o IntToStr(chosen_index) \o DotPdf

(* ------------------------------------------------------------------ *)
(* State                                                               *)
(* ------------------------------------------------------------------ *)
VARIABLES
    users_state,  \* user id -> object id of the stored session dict, 0: no entry
    heap,         \* object id -> the session dict
    nsess,        \* number of session dicts allocated so far
    thr,          \* worker thread -> the handler call it is running, its locals
    log,          \* the records written through the logging module
    disk,         \* the files present under the temporary directories
    fetches,      \* object id -> number of handle_download_and_prepare calls
    sent,         \* the last message the bot sent: to whom, and which text
    nevents       \* number of inbound events dispatched so far

vars == <<users_state, heap, nsess, thr, log, disk, fetches, sent, nevents>>

\* A dict with no keys; the fields of absent keys hold these fillers
EmptyDict ==
    [keys |-> {}, stage |-> "None", urls |-> <<>>, pdfs |-> <<>>,
     videos |-> <<>>, chosen_index |-> 0, chosen_url |-> <<>>,
     batch |-> <<>>, quality |-> <<>>, token |-> <<>>]

\* users_state[uid] = {"stage": "await_file"}
NewSession == [EmptyDict EXCEPT !.keys = {"stage"}, !.stage = "await_file"]

\* the dict a reference denotes; 0 is the {} default of users_state.get(uid, {})
Deref(sid) == IF sid = 0 THEN EmptyDict ELSE heap[sid]

\* a stage lookup that defaults to await_file: state.get("stage", "await_file")
StageOf_DefaultsToAwaitFile(sid) ==
    IF "stage" \in Deref(sid).keys THEN Deref(sid).stage ELSE "await_file"

\* state.get("stage")
StageOf(sid) == IF "stage" \in Deref(sid).keys THEN Deref(sid).stage ELSE "None"

\* a cleanup that leaves the entry in the store
Pop_KeepsEntry(uid) == users_state

\* a cleanup that empties the whole store (users_state.clear())
Pop_AllUsers(uid) == [u \in Users |-> 0]

\* users_state.pop(uid, None)
Pop(uid) == [users_state EXCEPT ![uid] = 0]

\* filler of the local file_path before handle_download_and_prepare is called
NoFile == [dir |-> <<0, 0>>, name |-> <<>>]

\* A worker with no handler call in progress
IdleThread ==
    [pc |-> "idle", uid |-> 0, raw |-> <<>>, text |-> <<>>, doc |-> <<>>,
     state |-> 0, stage |-> "None", chosen_url |-> <<>>, token |-> <<>>,
     quality |-> <<>>, file_path |-> NoFile]

\* the {e} of a message that reports no exception
NoCause == "none"

\* safe_send(message, text) / bot.send_document(uid, ...)
Sent(uid, kind) == [uid |-> uid, kind |-> kind, cause |-> NoCause]

\* safe_send(message, f"Download failed: {e}") / f"Upload failed: {e}"
SentFailure(uid, kind, e) == [uid |-> uid, kind |-> kind, cause |-> e]

Init ==
    /\ users_state = [u \in Users |-> 0]
    /\ heap = [s \in Sids |-> EmptyDict]
    /\ nsess = 0
    /\ thr = [t \in Threads |-> IdleThread]
    /\ log = {}
    /\ disk = {}
    /\ fetches = [s \in Sids |-> 0]
    /\ sent = Sent(0, "none")
    /\ nevents = 0

\* the worker pool hands a queued handler call to a free worker
CanDispatch(t) ==
    /\ thr[t].pc = "idle"
    /\ nevents < MaxEvents
    /\ nevents' = nevents + 1

(* ------------------------------------------------------------------ *)
(* cmd_pw                                                              *)
(* ------------------------------------------------------------------ *)
\* a /pw that resets the stage of the dict already stored, keeping its fields
cmd_pw_UpdatesInPlace(t, uid) ==
    /\ CanDispatch(t)
    /\ nsess < MaxSessions
    /\ IF users_state[uid] = 0
       THEN /\ nsess' = nsess + 1
            /\ heap' = [heap EXCEPT ![nsess + 1] = NewSession]
            /\ users_state' = [users_state EXCEPT ![uid] = nsess + 1]
       ELSE /\ heap' = [heap EXCEPT ![users_state[uid]].stage = "await_file"]
            /\ UNCHANGED <<nsess, users_state>>
    /\ sent' = Sent(uid, "send_file")
    /\ UNCHANGED <<thr, log, disk, fetches>>

\* lines 58-60
cmd_pw(t, uid) ==
    /\ CanDispatch(t)
    /\ nsess < MaxSessions
    /\ nsess' = nsess + 1
    /\ heap' = [heap EXCEPT ![nsess + 1] = NewSession]
    /\ users_state' = [users_state EXCEPT ![uid] = nsess + 1]
    /\ sent' = Sent(uid, "send_file")
    /\ UNCHANGED <<thr, log, disk, fetches>>

(* ------------------------------------------------------------------ *)
(* handle_document                                                     *)
(* ------------------------------------------------------------------ *)
\* lines 64-78: look the session up, check the stage
DocBegin(t, uid, doc) ==
    /\ CanDispatch(t)
    /\ LET state == users_state[uid]
       IN  IF StageOf(state) # "await_file"
           THEN /\ sent' = Sent(uid, "not_expecting_file")
                /\ thr' = thr
           ELSE /\ sent' = Sent(uid, "received_file")
                /\ thr' = [thr EXCEPT ![t] =
                              [IdleThread EXCEPT !.pc = "doc_fetch", !.uid = uid,
                                                 !.doc = doc, !.state = state]]
    /\ UNCHANGED <<users_state, heap, nsess, log, disk, fetches>>

\* lines 80-81 raise: the handler call ends there
DocFetchFails(t) ==
    /\ thr[t].pc = "doc_fetch"
    /\ thr' = [thr EXCEPT ![t] = IdleThread]
    /\ UNCHANGED <<users_state, heap, nsess, log, disk, fetches, sent, nevents>>

\* lines 80-105: the file arrived; parse it, drop or advance the session
DocFinish(t) ==
    /\ thr[t].pc = "doc_fetch"
    /\ LET uid == thr[t].uid
           state == thr[t].state
           text == DecodeIgnore(thr[t].doc)
           urls == parse_urls_from_text(text)
           NotPdf(u) == ~is_pdf_url(u)
       IN  IF urls = <<>>
           THEN /\ users_state' = Pop(uid)
                /\ heap' = heap
                /\ sent' = Sent(uid, "no_urls")
           ELSE /\ heap' = [heap EXCEPT ![state] =
                              [@ EXCEPT !.keys = @ \cup {"stage", "urls", "pdfs", "videos"},
                                        !.stage = "choosing_link",
                                        !.urls = urls,
                                        !.pdfs = SelectSeq(urls, is_pdf_url),
                                        !.videos = SelectSeq(urls, NotPdf)]]
                /\ users_state' = users_state
                /\ sent' = Sent(uid, "summary")
    /\ thr' = [thr EXCEPT ![t] = IdleThread]
    /\ UNCHANGED <<nsess, log, disk, fetches, nevents>>

(* ------------------------------------------------------------------ *)
(* handle_text                                                         *)
(* ------------------------------------------------------------------ *)
\* lines 109-116: strip the text, look the session up, read its stage
TextBegin(t, uid, raw) ==
    /\ CanDispatch(t)
    /\ LET text == Strip(raw)
           state == users_state[uid]
       IN  IF state = 0 \/ Deref(state).keys = {}
           THEN /\ sent' = Sent(uid, "send_pw_to_start")
                /\ thr' = thr
           ELSE /\ sent' = sent
                /\ thr' = [thr EXCEPT ![t] =
                              [IdleThread EXCEPT !.pc = "text_act", !.uid = uid,
                                                 !.raw = raw, !.text = text,
                                                 !.state = state,
                                                 !.stage = StageOf(state)]]
    /\ UNCHANGED <<users_state, heap, nsess, log, disk, fetches>>

\* lines 117-131
ChooseLink(t) ==
    LET state == thr[t].state
        uid == thr[t].uid
        idx == PyInt(thr[t].text)
        urls == heap[state].urls
    IN  /\ thr[t].pc = "text_act"
        /\ thr[t].stage = "choosing_link"
        /\ thr' = [thr EXCEPT ![t] = IdleThread]
        /\ UNCHANGED <<users_state, nsess, log, disk, fetches, nevents>>
        /\ IF ~idx.ok
           THEN /\ sent' = Sent(uid, "not_a_number")
                /\ UNCHANGED <<heap>>
           ELSE IF "urls" \notin heap[state].keys
           THEN \* KeyError: the handler call ends
                UNCHANGED <<heap, sent>>
           ELSE IF IndexOutOfRange(idx.val, urls)
           THEN /\ sent' = Sent(uid, "index_out_of_range")
                /\ UNCHANGED <<heap>>
           ELSE IF ~PyIndex(urls, idx.val - 1).ok
           THEN \* IndexError: the handler call ends
                UNCHANGED <<heap, sent>>
           ELSE /\ heap' = [heap EXCEPT ![state] =
                              [@ EXCEPT !.keys = @ \cup {"chosen_index", "chosen_url", "stage"},
                                        !.chosen_index = idx.val,
                                        !.chosen_url = PyIndex(urls, idx.val - 1).val,
                                        !.stage = "ask_batch"]]
                /\ sent' = Sent(uid, "selected")

\* lines 133-137
AskBatch(t) ==
    LET state == thr[t].state
    IN  /\ thr[t].pc = "text_act"
        /\ thr[t].stage = "ask_batch"
        /\ heap' = [heap EXCEPT ![state] =
                      [@ EXCEPT !.keys = @ \cup {"batch", "stage"},
                                !.batch = SanitizeBatch(thr[t].text),
                                !.stage = "ask_quality"]]
        /\ sent' = Sent(thr[t].uid, "choose_quality")
        /\ thr' = [thr EXCEPT ![t] = IdleThread]
        /\ UNCHANGED <<users_state, nsess, log, disk, fetches, nevents>>

\* lines 139-145
AskQuality(t) ==
    LET state == thr[t].state
    IN  /\ thr[t].pc = "text_act"
        /\ thr[t].stage = "ask_quality"
        /\ thr' = [thr EXCEPT ![t] = IdleThread]
        /\ UNCHANGED <<users_state, nsess, log, disk, fetches, nevents>>
        /\ IF QualityRejected(thr[t].text)
           THEN /\ sent' = Sent(thr[t].uid, "quality_rejected")
                /\ UNCHANGED <<heap>>
           ELSE /\ heap' = [heap EXCEPT ![state] =
                              [@ EXCEPT !.keys = @ \cup {"quality", "stage"},
                                        !.quality = thr[t].text,
                                        !.stage = "ask_token"]]
                /\ sent' = Sent(thr[t].uid, "send_token")

\* line 176: no branch of handle_text matches the stage
NotUnderstood(t) ==
    /\ thr[t].pc = "text_act"
    /\ thr[t].stage \notin {"choosing_link", "ask_batch", "ask_quality", "ask_token"}
    /\ thr' = [thr EXCEPT ![t] = IdleThread]
    /\ sent' = Sent(thr[t].uid, "not_understood")
    /\ UNCHANGED <<users_state, heap, nsess, log, disk, fetches, nevents>>

(* ------------------------------------------------------------------ *)
(* handle_text at ask_token, handle_download_and_prepare, upload       *)
(* ------------------------------------------------------------------ *)
\* token = text.strip()
TokenOf(text) == Strip(text)

\* lines 182-185: state["chosen_url"], state["token"], state["quality"],
\* state["batch"] raise KeyError when a key is absent
DownloadKeys == {"chosen_url", "token", "quality", "batch"}

\* the records handle_download_and_prepare writes to the log for this call
DownloadLogRecords(chosen_url, token) ==
    {FinalUrlLogRecord(FinalUrl(chosen_url, token))}

\* the record logging.exception("Download error") writes
DownloadErrorRecord ==
    <<"D", "o", "w", "n", "l", "o", "a", "d", " ", "e", "r", "r", "o", "r">>
\* the record logging.exception("Upload error") writes
UploadErrorRecord ==
    <<"U", "p", "l", "o", "a", "d", " ", "e", "r", "r", "o", "r">>

\* str(e) of the exceptions handle_download_and_prepare raises: a missing
\* key of the session (lines 182-185); on the PDF path a connection lost
\* while the chunks are written (lines 200-203); on the media path line 236
KeyErrorCause == "KeyError"

DownloadCauses(chosen_url) ==
    IF is_pdf_url(chosen_url)
    THEN {"ConnectionError"}
    ELSE {"Could not determine downloaded file path."}

\* str(e) of the exceptions of lines 161-164
UploadCauses == {"ApiTelegramException"}

\* lines 218-221: the format selectors
Format720 ==
    <<"b", "e", "s", "t", "v", "i", "d", "e", "o", "[", "h", "e", "i",
      "g", "h", "t", "<", "=", "7", "2", "0", "]", "+", "b", "e", "s",
      "t", "a", "u", "d", "i", "o", "/", "b", "e", "s", "t", "[", "h",
      "e", "i", "g", "h", "t", "<", "=", "7", "2", "0", "]">>

Format480 ==
    <<"b", "e", "s", "t", "v", "i", "d", "e", "o", "[", "h", "e", "i",
      "g", "h", "t", "<", "=", "4", "8", "0", "]", "+", "b", "e", "s",
      "t", "a", "u", "d", "i", "o", "/", "b", "e", "s", "t", "[", "h",
      "e", "i", "g", "h", "t", "<", "=", "4", "8", "0", "]">>

\* ydl_opts['format'] of the call, from its locals; the PDF path (lines 194-205) sets none
FormatOf(chosen_url, quality) ==
    IF is_pdf_url(chosen_url)
    THEN <<>>
    ELSE IF quality = Q720 THEN Format720 ELSE Format480

\* a fetch that always goes through the resolution endpoint
RequestUrl_AlwaysFinal(chosen_url, token) == FinalUrl(chosen_url, token)

\* the URL the call requests, from its locals chosen_url and token: target_url of requests.get (lines 195, 198)
\* or final_url of ydl.extract_info (line 225)
RequestUrl(chosen_url, token) ==
    IF is_pdf_url(chosen_url) THEN chosen_url ELSE FinalUrl(chosen_url, token)

\* the name yt_dlp gives the artifact under outtmpl f"{batch}_%(id)s.%(ext)s"
MediaLocalName(batch) == batch \o <<"_", "v", ".", "m", "p", "4">>

\* the path the call will return: tmpdir is fresh for every call
OutPath(sid, d) ==
    [dir |-> <<sid, fetches[sid] + 1>>,
     name |-> IF is_pdf_url(d.chosen_url)
              THEN PdfLocalName(d.batch, d.chosen_index)
              ELSE MediaLocalName(d.batch)]

\* lines 147-153 and 182-192: store the token, enter downloading, call
\* handle_download_and_prepare, which logs the final URL and starts the fetch
AskToken(t) ==
    LET state == thr[t].state
        uid == thr[t].uid
        token == TokenOf(thr[t].text)
        d == [heap[state] EXCEPT !.keys = @ \cup {"token", "stage"},
                                 !.token = token,
                                 !.stage = "downloading"]
    IN  /\ thr[t].pc = "text_act"
        /\ thr[t].stage = "ask_token"
        /\ heap' = [heap EXCEPT ![state] = d]
        /\ UNCHANGED <<nsess, disk, nevents>>
        /\ fetches' = [fetches EXCEPT ![state] = @ + 1]
        /\ IF DownloadKeys \subseteq d.keys
           THEN /\ log' = log \cup DownloadLogRecords(d.chosen_url, d.token)
                /\ thr' = [thr EXCEPT ![t] =
                              [@ EXCEPT !.pc = "fetching",
                                        !.chosen_url = d.chosen_url,
                                        !.token = d.token,
                                        !.quality = d.quality,
                                        !.file_path = OutPath(state, d)]]
                /\ sent' = Sent(uid, "starting_download")
                /\ users_state' = users_state
           ELSE \* KeyError inside the try: lines 154-158
                /\ log' = log \cup {DownloadErrorRecord}
                /\ thr' = [thr EXCEPT ![t] = IdleThread]
                /\ sent' = SentFailure(uid, "download_failed", KeyErrorCause)
                /\ users_state' = Pop(uid)

\* handle_download_and_prepare returns a path: the artifact is on disk
FetchOk(t) ==
    /\ thr[t].pc = "fetching"
    /\ disk' = disk \cup {thr[t].file_path}
    /\ thr' = [thr EXCEPT ![t].pc = "uploading"]
    /\ UNCHANGED <<users_state, heap, nsess, log, fetches, sent, nevents>>

\* the files a failed fetch leaves in its tmpdir: out_path, opened at line
\* 200, when the connection is lost during the chunks; none when line 236
\* is reached, which needs an empty tmpdir
Leftover(call, e) ==
    IF e = "ConnectionError" THEN {call.file_path} ELSE {}

\* a failure branch that logs the exception and tells the user nothing
FetchFails_Silent(t) ==
    /\ thr[t].pc = "fetching"
    /\ log' = log \cup {DownloadErrorRecord}
    /\ sent' = sent
    /\ users_state' = Pop(thr[t].uid)
    /\ thr' = [thr EXCEPT ![t] = IdleThread]
    /\ UNCHANGED <<heap, nsess, disk, fetches, nevents>>

\* handle_download_and_prepare raises: lines 154-158
FetchFails(t) ==
    /\ thr[t].pc = "fetching"
    /\ log' = log \cup {DownloadErrorRecord}
    /\ \E e \in DownloadCauses(thr[t].chosen_url) :
          /\ sent' = SentFailure(thr[t].uid, "download_failed", e)
          /\ disk' = disk \cup Leftover(thr[t], e)
    /\ users_state' = Pop(thr[t].uid)
    /\ thr' = [thr EXCEPT ![t] = IdleThread]
    /\ UNCHANGED <<heap, nsess, fetches, nevents>>

\* a cleanup that drops the session and leaves the file behind
Cleanup_KeepsFile(t) ==
    /\ disk' = disk
    /\ users_state' = Pop(thr[t].uid)

\* lines 168-173: os.remove(file_path); users_state.pop(uid, None)
Cleanup(t) ==
    /\ disk' = disk \ {thr[t].file_path}
    /\ users_state' = Pop(thr[t].uid)

\* lines 161-164 succeed, then the finally block
UploadOk(t) ==
    /\ thr[t].pc = "uploading"
    /\ sent' = Sent(thr[t].uid, "document")
    /\ Cleanup(t)
    /\ thr' = [thr EXCEPT ![t] = IdleThread]
    /\ UNCHANGED <<heap, nsess, log, fetches, nevents>>

\* lines 161-164 raise: lines 165-167, then the finally block
UploadFails(t) ==
    /\ thr[t].pc = "uploading"
    /\ log' = log \cup {UploadErrorRecord}
    /\ \E e \in UploadCauses :
          sent' = SentFailure(thr[t].uid, "upload_failed", e)
    /\ Cleanup(t)
    /\ thr' = [thr EXCEPT ![t] = IdleThread]
    /\ UNCHANGED <<heap, nsess, fetches, nevents>>

(* ------------------------------------------------------------------ *)
(* Specification                                                       *)
(* ------------------------------------------------------------------ *)
\* the events of the users in U carrying the documents D and the texts T,
\* and the steps of the handler calls in progress
NextWith(U, D, T) ==
    \E t \in Threads :
        \/ \E uid \in U : cmd_pw(t, uid)
        \/ \E uid \in U, doc \in D : DocBegin(t, uid, doc)
        \/ DocFetchFails(t)
        \/ DocFinish(t)
        \/ \E uid \in U, raw \in T : TextBegin(t, uid, raw)
        \/ ChooseLink(t)
        \/ AskBatch(t)
        \/ AskQuality(t)
        \/ AskToken(t)
        \/ NotUnderstood(t)
        \/ FetchOk(t)
        \/ FetchFails(t)
        \/ UploadOk(t)
        \/ UploadFails(t)

NextOf(U) == NextWith(U, Docs, MsgTexts)

Next == NextOf(Senders)

Spec == Init /\ [][Next]_vars

\* Two users send events; the documents and texts are those one complete
\* session needs (an index, a label, a quality, a token)
MultiDocs == {DocA, DocB}

MultiTexts == { <<"1">>, <<"x", "/", "y">>, <<"4", "8", "0">> }

NextMulti == NextWith(Users, MultiDocs, MultiTexts)

SpecMulti == Init /\ [][NextMulti]_vars

\* The ask_batch transition over a bounded set of label texts: every text of
\* at most MaxShortLen characters over BatchAlphabet, and texts around the
\* cut length with and without separators and blanks near the cut
MaxShortLen == 3

BatchAlphabet == {"a", "b", "/", " "}

ShortTexts ==
    UNION { [1..n -> BatchAlphabet] : n \in 0..MaxShortLen }

Fill(c, n) == [i \in 1..n |-> c]

LongTexts ==
    { Fill(c, n) \o tail :
          c \in {"a", "/"},
          n \in (MaxBatchLen - 2)..(MaxBatchLen + 1),
          tail \in { <<>>, <<"/">>, <<"/", "b">>, <<" ", "b">> } }

BatchTexts == ShortTexts \cup LongTexts

\* the session after /pw, DocA and the text "1"
SessionAtAskBatch ==
    LET urls == parse_urls_from_text(DecodeIgnore(DocA))
        NotPdf(u) == ~is_pdf_url(u)
    IN  [NewSession EXCEPT
            !.keys = {"stage", "urls", "pdfs", "videos",
                      "chosen_index", "chosen_url"},
            !.stage = "ask_batch",
            !.urls = urls,
            !.pdfs = SelectSeq(urls, is_pdf_url),
            !.videos = SelectSeq(urls, NotPdf),
            !.chosen_index = 1,
            !.chosen_url = urls[1]]

\* user 1 is at ask_batch and a worker has taken a text message of BatchTexts
\* up to line 116
InitBatch ==
    /\ users_state = [u \in Users |-> IF u = 1 THEN 1 ELSE 0]
    /\ heap = [s \in Sids |-> IF s = 1 THEN SessionAtAskBatch ELSE EmptyDict]
    /\ nsess = 1
    /\ \E t \in Threads, raw \in BatchTexts :
          thr = [w \in Threads |->
                    IF w = t
                    THEN [IdleThread EXCEPT !.pc = "text_act", !.uid = 1,
                                            !.raw = raw, !.text = Strip(raw),
                                            !.state = 1, !.stage = "ask_batch"]
                    ELSE IdleThread]
    /\ log = {}
    /\ disk = {}
    /\ fetches = [s \in Sids |-> 0]
    /\ sent = Sent(1, "selected")
    /\ nevents = 4

NextBatch == \E t \in Threads : AskBatch(t)

SpecBatch == InitBatch /\ [][NextBatch]_vars

(* ------------------------------------------------------------------ *)
(* Vocabulary of the properties                                        *)
(* ------------------------------------------------------------------ *)
StageOrder ==
    <<"await_file", "choosing_link", "ask_batch", "ask_quality", "ask_token",
      "downloading">>

StageRank(stage) == CHOOSE i \in 1..Len(StageOrder) : StageOrder[i] = stage

\* the session dicts that exist
Allocated == 1..nsess

\* the session dict is the one stored for some user
Stored(s) == \E u \in Users : users_state[u] = s

\* worker t has a handler call in progress
Busy(t) == thr[t].pc # "idle"

\* worker t takes a step (a worker's locals change only by its own steps)
Steps(t) == thr'[t] # thr[t]

AllIdle == \A t \in Threads : ~Busy(t)

(* ------------------------------------------------------------------ *)
(* C1                                                                  *)
(* ------------------------------------------------------------------ *)
\* C1: while a session is stored, every change of its stage goes to the
\* immediate successor in await_file -> choosing_link -> ask_batch ->
\* ask_quality -> ask_token -> downloading; never backward, never skipping.
C1_StageOnlyAdvancesByOne ==
    [][\A s \in Allocated :
          (Stored(s) /\ heap'[s].stage # heap[s].stage)
              => StageRank(heap'[s].stage) = StageRank(heap[s].stage) + 1]_vars

(* ------------------------------------------------------------------ *)
(* C2                                                                  *)
(* ------------------------------------------------------------------ *)
\* C2: a stored session is in stage downloading only while the handler call
\* that will remove it is still running; once the handling of the token
\* event has finished, no entry in stage downloading is left in users_state.
C2_NoDanglingDownload ==
    \A u \in Users :
        (users_state[u] # 0 /\ heap[users_state[u]].stage = "downloading")
            => \E t \in Threads :
                  /\ thr[t].pc \in {"fetching", "uploading"}
                  /\ thr[t].uid = u

\* a session went through downloading, its handler call has finished with a
\* download failure, and the store holds no entry for the user
C2_Witness ==
    /\ AllIdle
    /\ sent.uid = 1 /\ sent.kind = "download_failed"
    /\ users_state[1] = 0
    /\ \E s \in Allocated : heap[s].stage = "downloading" /\ fetches[s] = 1

(* ------------------------------------------------------------------ *)
(* C3                                                                  *)
(* ------------------------------------------------------------------ *)
\* C3: handle_download_and_prepare is invoked at most once for every session.
C3_AtMostOneFetch == \A s \in Sids : fetches[s] <= 1

(* ------------------------------------------------------------------ *)
(* C4                                                                  *)
(* ------------------------------------------------------------------ *)
\* C4: handler calls of one user never overlap: no two workers are inside a
\* handler call for the same user id at the same time.
C4_PerUserSerialized ==
    \A t1, t2 \in Threads :
        (t1 # t2 /\ Busy(t1) /\ Busy(t2)) => thr[t1].uid # thr[t2].uid

(* ------------------------------------------------------------------ *)
(* C5                                                                  *)
(* ------------------------------------------------------------------ *)
\* C5: no record written through the logging module contains the token of a
\* session.
C5_TokenNeverLogged ==
    \A s \in Allocated :
        ("token" \in heap[s].keys /\ heap[s].token # <<>>)
            => \A r \in log : ~Contains(r, heap[s].token)

(* ------------------------------------------------------------------ *)
(* C6                                                                  *)
(* ------------------------------------------------------------------ *)
\* C6: whenever a session has chosen_url set, 1 <= chosen_index <= len(urls).
C6_ChosenIndexInRange ==
    \A s \in Allocated :
        "chosen_url" \in heap[s].keys
            => /\ 1 <= heap[s].chosen_index
               /\ heap[s].chosen_index <= Len(heap[s].urls)

(* ------------------------------------------------------------------ *)
(* C7                                                                  *)
(* ------------------------------------------------------------------ *)
\* the reply is no integer, or an integer below 1 or above len(urls)
BadIndexText(text, urls) ==
    \/ ~PyInt(text).ok
    \/ PyInt(text).val < 1
    \/ PyInt(text).val > Len(urls)

\* C7: a text reply at choosing_link that is not an integer, or is an integer
\* below 1 or above len(urls), re-prompts the user and changes no session
\* and no store entry.
C7_InvalidIndexRejected ==
    [][\A t \in Threads :
          (/\ thr[t].pc = "text_act"
           /\ thr[t].stage = "choosing_link"
           /\ BadIndexText(thr[t].raw, heap[thr[t].state].urls)
           /\ Steps(t))
              => /\ heap' = heap
                 /\ users_state' = users_state
                 /\ sent'.uid = thr[t].uid
                 /\ sent'.kind \in {"not_a_number", "index_out_of_range"}]_vars

\* an out-of-range index was answered and the session is still stored at
\* choosing_link with nothing chosen
C7_Witness ==
    /\ AllIdle
    /\ sent = Sent(1, "index_out_of_range")
    /\ users_state[1] # 0
    /\ heap[users_state[1]].stage = "choosing_link"
    /\ heap[users_state[1]].keys \cap {"chosen_index", "chosen_url"} = {}

(* ------------------------------------------------------------------ *)
(* C8                                                                  *)
(* ------------------------------------------------------------------ *)
\* C8 as stated: at ask_quality every message whose content is not exactly
\* '480' or '720' is rejected with a re-prompt and changes no session.
C8_ExactContentOnly ==
    [][\A t \in Threads :
          (/\ thr[t].pc = "text_act"
           /\ thr[t].stage = "ask_quality"
           /\ thr[t].raw \notin {Q480, Q720}
           /\ Steps(t))
              => /\ heap' = heap
                 /\ sent' = Sent(thr[t].uid, "quality_rejected")]_vars

\* C8 as amended: at ask_quality a message whose content, with leading and
\* trailing whitespace stripped, is not exactly '480' or '720' is rejected
\* with a re-prompt and changes no session; a message that strips to one of
\* the two literals sets quality to that literal and the stage to ask_token.
C8_ExactAfterStrip ==
    [][\A t \in Threads :
          (/\ thr[t].pc = "text_act"
           /\ thr[t].stage = "ask_quality"
           /\ Steps(t))
              => IF Strip(thr[t].raw) \notin {Q480, Q720}
                 THEN /\ heap' = heap
                      /\ users_state' = users_state
                      /\ sent' = Sent(thr[t].uid, "quality_rejected")
                 ELSE /\ "quality" \in heap'[thr[t].state].keys
                      /\ heap'[thr[t].state].quality = Strip(thr[t].raw)
                      /\ heap'[thr[t].state].stage = "ask_token"]_vars

\* a text was rejected at ask_quality and the stored session is still there
\* without a quality
C8_Witness ==
    /\ AllIdle
    /\ sent = Sent(1, "quality_rejected")
    /\ users_state[1] # 0
    /\ heap[users_state[1]].stage = "ask_quality"
    /\ "quality" \notin heap[users_state[1]].keys

(* ------------------------------------------------------------------ *)
(* C9                                                                  *)
(* ------------------------------------------------------------------ *)
\* C9: a session enters downloading, and handle_download_and_prepare is
\* called for it, only with a non-empty token.
C9_TokenNonEmpty ==
    \A s \in Allocated :
        (heap[s].stage = "downloading" \/ fetches[s] > 0)
            => heap[s].token # <<>>

(* ------------------------------------------------------------------ *)
(* C10                                                                 *)
(* ------------------------------------------------------------------ *)
\* C10: when the upload of a fetched file ends, with success or with failure,
\* the file is gone from disk and the user's entry is gone from the store;
\* the user gets the document or the failure text; no session is created or
\* changed and no further download is started.
C10_UploadAlwaysCleansUp ==
    [][\A t \in Threads :
          (/\ thr[t].pc = "uploading"
           /\ thr[t].file_path \in disk
           /\ Steps(t))
              => /\ thr[t].file_path \notin disk'
                 /\ users_state'[thr[t].uid] = 0
                 /\ thr'[t].pc = "idle"
                 /\ sent'.uid = thr[t].uid
                 /\ sent'.kind \in {"document", "upload_failed"}
                 /\ log' # log => sent'.kind = "upload_failed"
                 /\ heap' = heap
                 /\ nsess' = nsess
                 /\ fetches' = fetches]_vars

\* an upload failed, was reported, and neither file nor session is left
C10_Witness ==
    /\ AllIdle
    /\ sent.uid = 1 /\ sent.kind = "upload_failed"
    /\ UploadErrorRecord \in log
    /\ disk = {}
    /\ users_state[1] = 0
    /\ \E s \in Allocated : fetches[s] = 1

(* ------------------------------------------------------------------ *)
(* C11                                                                 *)
(* ------------------------------------------------------------------ *)
\* worker t runs the download or the upload of the session stored for u
Downloads(t, u) ==
    /\ thr[t].pc \in {"fetching", "uploading"}
    /\ thr[t].uid = u
    /\ thr[t].state = users_state[u]

\* C11: while the session stored for a user is in stage downloading, the
\* user's entry and its stage change only by the end of that session's own
\* download or delivery; no other event of the user takes it out of
\* downloading.
C11_DownloadingLeftOnlyByCompletion ==
    [][\A u \in Users :
          (/\ users_state[u] # 0
           /\ heap[users_state[u]].stage = "downloading"
           /\ \E t \in Threads : Downloads(t, u))
              => \/ /\ users_state'[u] = users_state[u]
                    /\ heap'[users_state[u]].stage = "downloading"
                 \/ \E t \in Threads :
                       Downloads(t, u) /\ Steps(t) /\ thr'[t].pc = "idle"]_vars

(* ------------------------------------------------------------------ *)
(* C12                                                                 *)
(* ------------------------------------------------------------------ *)
\* C12: the step that answers /pw leaves the user with a stored session
\* whose only key is stage, with value await_file; no urls, chosen_index,
\* chosen_url, batch, quality or token of an earlier session is in it.
C12_PwGivesFreshSession ==
    [][(nevents' # nevents /\ sent'.kind = "send_file")
          => LET u == sent'.uid
                 d == heap'[users_state'[u]]
             IN  /\ users_state'[u] # 0
                 /\ d.keys = {"stage"}
                 /\ d.stage = "await_file"
                 /\ d.urls = <<>> /\ d.pdfs = <<>> /\ d.videos = <<>>
                 /\ d.chosen_index = 0 /\ d.chosen_url = <<>>
                 /\ d.batch = <<>> /\ d.quality = <<>> /\ d.token = <<>>]_vars

\* /pw was sent at ask_token: the earlier dict holds its fields, the stored
\* one is fresh
C12_Witness ==
    /\ sent = Sent(1, "send_file")
    /\ users_state[1] = 2
    /\ heap[2].keys = {"stage"}
    /\ heap[1].stage = "ask_token"
    /\ heap[1].batch # <<>>
    /\ heap[1].quality = Q720

(* ------------------------------------------------------------------ *)
(* C13                                                                 *)
(* ------------------------------------------------------------------ *)
\* the step handles an event of user a: a step of a handler call of a, or a
\* command or rejected message of a answered within the dispatching step
StepOf(a) ==
    \/ \E t \in Threads :
          /\ Steps(t)
          /\ a = (IF thr[t].pc = "idle" THEN thr'[t].uid ELSE thr[t].uid)
    \/ thr' = thr /\ nevents' # nevents /\ sent'.uid = a

\* the step leaves the entry of user b, and the dict it refers to, as it was
EntryUnchanged(b) ==
    /\ users_state'[b] = users_state[b]
    /\ users_state[b] # 0 => heap'[users_state[b]] = heap[users_state[b]]

\* C13: for two distinct users A and B, every step of handling an event of A
\* (command, document, text, download, delivery, cleanup) leaves B's entry in
\* users_state and B's session dict unchanged.
C13_OtherUsersEntryUntouched ==
    [][\A a, b \in Users : (a # b /\ StepOf(a)) => EntryUnchanged(b)]_vars

\* user 1's delivery and cleanup have run while user 2 holds a session
C13_Witness ==
    /\ sent = Sent(1, "document")
    /\ users_state[1] = 0
    /\ users_state[2] # 0
    /\ heap[users_state[2]].stage = "await_file"
    /\ \E s \in Allocated : heap[s].stage = "downloading"

(* ------------------------------------------------------------------ *)
(* C14                                                                 *)
(* ------------------------------------------------------------------ *)
\* the step creates no session and changes no entry, field or stage
StoreUnchanged ==
    /\ users_state' = users_state
    /\ heap' = heap
    /\ nsess' = nsess

\* the event of user u is answered with the guidance message kind and ends
Rejected(u, kind) ==
    /\ StoreUnchanged
    /\ thr' = thr
    /\ sent' = Sent(u, kind)

\* C14: a document arriving when the user has no session or a session whose
\* stage is not await_file, a text arriving when the user has no session, and
\* a text arriving at await_file or downloading are answered with a guidance
\* message and leave users_state and every session dict as they were.
C14_UnmatchedEventChangesNothing ==
    [][\A t \in Threads, u \in Users :
          LET sid == users_state[u]
              stage == IF sid = 0 THEN "None" ELSE heap[sid].stage
          IN  /\ (stage # "await_file" /\ \E doc \in Docs : DocBegin(t, u, doc))
                    => Rejected(u, "not_expecting_file")
              /\ (sid = 0 /\ \E raw \in MsgTexts : TextBegin(t, u, raw))
                    => Rejected(u, "send_pw_to_start")
              /\ (/\ stage \in {"await_file", "downloading"}
                  /\ \E raw \in MsgTexts : TextBegin(t, u, raw))
                    => /\ StoreUnchanged
                       /\ thr'[t].pc = "text_act"
                       /\ thr'[t].stage = stage
              /\ (/\ thr[t].pc = "text_act"
                  /\ thr[t].uid = u
                  /\ thr[t].stage \in {"await_file", "downloading"}
                  /\ Steps(t))
                    => /\ StoreUnchanged
                       /\ thr'[t] = IdleThread
                       /\ sent' = Sent(u, "not_understood")]_vars

\* a text sent during the download was answered while the session is still
\* stored and in downloading
C14_Witness ==
    /\ sent = Sent(1, "not_understood")
    /\ users_state[1] # 0
    /\ heap[users_state[1]].stage = "downloading"
    /\ \E t \in Threads : Downloads(t, 1)

(* ------------------------------------------------------------------ *)
(* C15                                                                 *)
(* ------------------------------------------------------------------ *)
\* the URLs written in each uploaded file, in the order of its lines
UrlsWrittenIn(doc) ==
    CASE doc = DocA -> <<SubSeq(DocA, 1, 19), SubSeq(DocA, 21, 39)>>
      [] doc = DocB -> <<>>
      [] doc = DocC -> <<SubSeq(DocC, 3, 19)>>

\* C15: when the file of a document accepted at await_file holds no URL, the
\* user's entry is removed and the user is told so; when it holds URLs, urls
\* becomes exactly those URLs in document order and the stage becomes
\* choosing_link. No session is at choosing_link with an empty urls.
C15_DocumentOutcome ==
    [][/\ \A t \in Threads :
             DocFinish(t) =>
                LET u == thr[t].uid
                    sid == thr[t].state
                    expected == UrlsWrittenIn(thr[t].doc)
                IN  IF expected = <<>>
                    THEN /\ users_state'[u] = 0
                         /\ heap' = heap
                         /\ sent' = Sent(u, "no_urls")
                    ELSE /\ heap'[sid].urls = expected
                         /\ heap'[sid].stage = "choosing_link"
                         /\ users_state' = users_state
                         /\ sent' = Sent(u, "summary")
       /\ \A s \in Sids :
             heap'[s].stage = "choosing_link" => heap'[s].urls # <<>>]_vars

\* the padded upper-case URL of DocC was stored and the user got the summary
C15_Witness ==
    /\ sent = Sent(1, "summary")
    /\ users_state[1] # 0
    /\ heap[users_state[1]].stage = "choosing_link"
    /\ heap[users_state[1]].urls = <<SubSeq(DocC, 3, 19)>>
    /\ heap[users_state[1]].pdfs = <<SubSeq(DocC, 3, 19)>>

(* ------------------------------------------------------------------ *)
(* C16                                                                 *)
(* ------------------------------------------------------------------ *)
\* the user of the call of worker t is sent the failure message kind with
\* the text of an exception in it, and the call ends in the ordinary way,
\* its cleanup done
FailureReported(t, kind) ==
    /\ sent'.uid = thr[t].uid
    /\ sent'.kind = kind
    /\ sent'.cause # NoCause
    /\ thr'[t] = IdleThread
    /\ users_state'[thr[t].uid] = 0

ResolutionUrl(chosen_url, token) ==
    <<"h", "t", "t", "p", "s", ":", "/", "/", "a", "n", "o", "n", "y",
      "m", "o", "u", "s", "p", "w", "p", "l", "a", "y", "e", "r",
      "-", "2", "5", "2", "6", "1", "a", "c", "d", "1", "5", "2",
      "1", ".", "h", "e", "r", "o", "k", "u", "a", "p", "p", ".",
      "c", "o", "m", "/", "p", "w", "?", "u", "r", "l", "=">>
      \o chosen_url \o <<"&", "t", "o", "k", "e", "n", "=">> \o token

\* the format selector is the one that caps the height of the video, and of
\* the fallback, at quality
CappedAt(format, quality) ==
    LET Cap == <<"[", "h", "e", "i", "g", "h", "t", "<", "=">> \o quality \o <<"]">>
    IN  format = <<"b", "e", "s", "t", "v", "i", "d", "e", "o">> \o Cap
                    \o <<"+", "b", "e", "s", "t", "a", "u", "d", "i", "o",
                         "/", "b", "e", "s", "t">> \o Cap

\* C17: when handle_download_and_prepare is called for a session whose
\* chosen URL is classified as PDF, the request goes to the chosen URL itself,
\* not to the resolution endpoint, the token is not in the requested URL, and
\* the artifact's name is <batch>_<chosen_index>.pdf; when the chosen URL is
\* not PDF, the request goes to <base>?url=<chosen_url>&token=<token> and the
\* format selector caps the height at the session's quality.
C17_FetchTarget ==
    [][\A t \in Threads :
          (thr[t].pc = "text_act" /\ thr'[t].pc = "fetching")
             => LET d == heap'[thr[t].state]
                    call == thr'[t]
                    request_url == RequestUrl(call.chosen_url, call.token)
                    format == FormatOf(call.chosen_url, call.quality)
                IN  IF is_pdf_url(d.chosen_url)
                    THEN /\ request_url = d.chosen_url
                         /\ request_url # ResolutionUrl(d.chosen_url, d.token)
                         /\ ~StartsWith(d.chosen_url, api_base)
                         /\ d.token # <<>> => ~Contains(d.chosen_url, d.token)
                         /\ call.file_path.name =
                               d.batch \o <<"_">> \o IntToStr(d.chosen_index)
                                       \o <<".", "p", "d", "f">>
                    ELSE /\ request_url = ResolutionUrl(d.chosen_url, d.token)
                         /\ d.quality \in {Q480, Q720}
                         /\ CappedAt(format, d.quality)]_vars

\* a fetch of the PDF URL of DocA, chosen as number 1 with the label x_y
\* and the token 1, is in flight
C17_Witness ==
    \E t \in Threads :
        /\ thr[t].pc = "fetching"
        /\ is_pdf_url(thr[t].chosen_url)
        /\ heap[thr[t].state].token = <<"1">>
        /\ thr[t].chosen_url = SubSeq(DocA, 1, 19)
        /\ thr[t].token = <<"1">>
        /\ thr[t].file_path.name =
              <<"x", "_", "y", "_", "1", ".", "p", "d", "f">>

(* ------------------------------------------------------------------ *)
(* C18                                                                 *)
(* ------------------------------------------------------------------ *)
\* C18: for every label text, the ask_batch transition succeeds and advances
\* the session to ask_quality, and the label it stores is a fixed point of the
\* sanitization (sanitizing it again returns it), is at most 64 characters
\* long and contains no "/".
C18_SanitizeIdempotent ==
    [][\A t \in Threads :
          (thr[t].pc = "text_act" /\ thr[t].stage = "ask_batch" /\ Steps(t))
             => LET d == heap'[thr[t].state]
                    batch == d.batch
                IN  /\ d.stage = "ask_quality"
                    /\ "batch" \in d.keys
                    /\ sent' = Sent(thr[t].uid, "choose_quality")
                    /\ thr'[t] = IdleThread
                    /\ SanitizeBatch(batch) = batch
                    /\ Len(batch) <= 64
                    /\ \A i \in 1..Len(batch) : batch[i] # "/"]_vars

\* a text of 66 characters with separators on both sides of the cut was
\* stored as a label of 64 characters
C18_Witness ==
    /\ heap[1].stage = "ask_quality"
    /\ Len(heap[1].batch) = 64
    /\ heap[1].batch[1] = "a"
    /\ heap[1].batch[64] = "_"
    /\ AllIdle

(* ------------------------------------------------------------------ *)
(* C19                                                                 *)
(* ------------------------------------------------------------------ *)
\* C19: the cleanup that ends a download removes only the session that
\* started it: when the user's stored entry is by then another session (the
\* await_file session of a /pw sent during the download), that entry is
\* still stored after the cleanup.
C19_CleanupRemovesOnlyOwnSession ==
    [][\A t \in Threads :
          (/\ thr[t].pc \in {"fetching", "uploading"}
           /\ thr'[t].pc = "idle"
           /\ users_state[thr[t].uid] # thr[t].state)
             => users_state'[thr[t].uid] = users_state[thr[t].uid]]_vars

(* ------------------------------------------------------------------ *)
(* C20                                                                 *)
(* ------------------------------------------------------------------ *)
\* C20: when a download or delivery ends (successful upload, upload failure,
\* download failure) and the session is destroyed, no file is left in the
\* working directory that invocation created.
C20_NoFilesLeftBehind ==
    [][\A t \in Threads :
          (thr[t].pc \in {"fetching", "uploading"} /\ thr'[t].pc = "idle")
             => \A f \in disk' : f.dir # thr[t].file_path.dir]_vars

====
